---- MODULE Spec2Model ----
(***************************************************************************)
(* Model of src/src/components/EmployeeManager.js: the roster of employees *)
(* (create / update / delete / sample generation / Excel import) and the   *)
(* Secret Santa assignment engine (bulk draw and individual draw).         *)
(*                                                                         *)
(* The component's useState cells are the variables.  Every event handler  *)
(* and every deferred callback (setTimeout, FileReader.onload) is one      *)
(* action.  A deferred callback reads the values its closure captured when *)
(* it was registered, so those values travel with the pending timer.       *)
(* Strings are sequences of one-character strings, so that trim() and      *)
(* toLowerCase() are computed and not assumed.                             *)
(*                                                                         *)
(* Presentation-only state (animationText, searchQuery, showAssignments,   *)
(* allSlots, popupData, the interests field) is left out: no handler reads *)
(* it to decide a roster or assignment change.                             *)
(***************************************************************************)
EXTENDS Integers, Sequences, FiniteSets, TLC

VARIABLES
    employees,               \* useState([])  line 10: sequence of [id, empnid, name]
    lastId,                  \* useState(0)   line 14
    isLoaded,                \* useState(false) line 15: the load effect has run
    localStorage,            \* the three keys of lines 5-7
    formData,                \* line 11: [empnid, name]
    editingId,               \* line 12: Null or an id
    error,                   \* line 13
    secretSantaAssignments,  \* line 16: function  giver id -> target id
    isAnimating,             \* line 17
    showSlotSelection,       \* line 21
    currentDrawingEmployee,  \* line 22: Null or the drawer's id
    availableSlots,          \* line 23: sequence of candidate ids
    selectedSlot,            \* line 25: Null or a slot index (0-based)
    bulkTimer,               \* pending setTimeout of line 503: <<>> or <<employees captured>>
    slotTimers,              \* pending setTimeouts of line 631, oldest first
    fileReader,              \* pending FileReader.onload of line 358: <<>> or <<closure>>
    showImportPopup,         \* line 27
    importDuplicates,        \* line 28
    pendingImportEmployees,  \* line 30
    importValidCount,        \* line 29
    operations,              \* history: how many handler runs changed the roster, the
                             \* form or an import so far
    loadedFrom,              \* history: <<>>, or <<what the three keys held when the load
                             \* effects last read them>> while no handler has run since
    allocatedIds,            \* history: the ids members of the roster have had so far
    importsAlone,            \* history: nothing was created, generated or imported while
                             \* an import was between the choice of its file and its commit
    lastOp,                  \* history: <<handler, what it acted on, outcome>> of the
                             \* last draw or delete step
    drawsInSequence          \* history: the assignments come from individual draws alone,
                             \* each committed before the next was opened, since they were last empty

rosterVars == <<employees, lastId, allocatedIds>>
formVars   == <<formData, editingId>>
drawVars   == <<secretSantaAssignments, isAnimating, showSlotSelection,
                currentDrawingEmployee, availableSlots, selectedSlot,
                bulkTimer, slotTimers>>
importVars == <<fileReader, showImportPopup, importDuplicates,
                pendingImportEmployees, importValidCount,
                importsAlone>>
vars == <<employees, lastId, isLoaded, localStorage, formData, editingId, error,
          secretSantaAssignments, isAnimating, showSlotSelection,
          currentDrawingEmployee, availableSlots, selectedSlot,
          bulkTimer, slotTimers,
          fileReader, showImportPopup, importDuplicates, pendingImportEmployees, importValidCount,
          loadedFrom, allocatedIds, importsAlone, operations, lastOp, drawsInSequence>>

\* null and undefined: no id and no slot index is negative
Null == -1

(***************************************************************************)
(* Bounds of the model.                                                    *)
(***************************************************************************)
MaxRoster == 3      \* employees.length never exceeds this in the model
MaxSlotTimers == 1  \* pending individual-draw commits at one time
MaxLastId == 2      \* no id above this is handed out in the model
MaxImportRows == 2  \* data rows of an imported sheet
MaxFileReaders == 1 \* FileReaders with a pending onload at one time
SampleCount == 1    \* employees per sample generation (100 at line 324)
MaxOperations == 6  \* handler runs that change the roster, the form or an import
MaxGrownRoster == 2 \* create, generation and import grow employees no longer

(***************************************************************************)
(* Strings.                                                                *)
(***************************************************************************)
EmptyStr == <<>>

\* String.prototype.toLowerCase on the letters the model uses
LowerChar(c) ==
    CASE c = "E" -> "e"
      [] c = "M" -> "m"
      [] c = "P" -> "p"
      [] c = "A" -> "a"
      [] c = "B" -> "b"
      [] c = "D" -> "d"
      [] c = "I" -> "i"
      [] c = "N" -> "n"
      [] c = "S" -> "s"
      [] OTHER -> c

toLowerCase(s) == [i \in 1..Len(s) |-> LowerChar(s[i])]

IsSpace(c) == c = " "

RECURSIVE TrimStart(_)
TrimStart(s) ==
    IF s # <<>> /\ IsSpace(Head(s)) THEN TrimStart(Tail(s)) ELSE s

RECURSIVE TrimEnd(_)
TrimEnd(s) ==
    IF s # <<>> /\ IsSpace(s[Len(s)]) THEN TrimEnd(SubSeq(s, 1, Len(s) - 1)) ELSE s

\* String.prototype.trim
trim(s) == TrimEnd(TrimStart(s))

(***************************************************************************)
(* Helpers on the roster and on the assignment object.                     *)
(***************************************************************************)
Range(s) == {s[i] : i \in DOMAIN s}

IdsOf(emps) == {emps[i].id : i \in DOMAIN emps}

\* arr[i] with the 0-based index of the source
At0(arr, i) == arr[i + 1]

\* Object.values(secretSantaAssignments)
Values(m) == {m[k] : k \in DOMAIN m}

\* obj[key] = value on a plain object
Put(m, key, value) ==
    [k \in (DOMAIN m) \cup {key} |-> IF k = key THEN value ELSE m[k]]

NoAssignments == <<>>

\* history: the ids of the roster after this step have been allocated
Allocated == allocatedIds' = allocatedIds \cup IdsOf(employees')

\* history: one more handler run that changed the roster, the form or an import
Counted == operations < MaxOperations /\ operations' = operations + 1

\* the decimal digit n as a character
Digit(n) == At0(<<"0", "1", "2", "3", "4", "5", "6", "7", "8", "9">>, n)

\* String(n) for n >= 0
RECURSIVE String(_)
String(n) ==
    IF n < 10 THEN <<Digit(n)>> ELSE String(n \div 10) \o <<Digit(n % 10)>>

\* what the save effects of lines 106-124 leave under the three keys when the
\* rendered state is emps, last and assignments (JSON.stringify keeps the
\* fields of a member and the entries of the assignment object as they are)
Stored(emps, last, assignments, before) ==
    [employees_data |-> [kind |-> "array", records |-> emps],
     employees_last_id |-> IF last >= 0 THEN String(last) ELSE before.employees_last_id,
     secret_santa_assignments |-> assignments]

\* the save effects of lines 106-124, which run after every render of a loaded
\* component; no handler sets isLoaded
Saved ==
    /\ isLoaded
    /\ isLoaded' = isLoaded
    /\ loadedFrom' = <<>>
    /\ localStorage' = Stored(employees', lastId', secretSantaAssignments', localStorage)

\* the blank form of lines 11, 201, 243, 269, 288
BlankForm == [empnid |-> EmptyStr, name |-> EmptyStr]

\* error texts set by the handlers
ErrNone == ""
ErrIdRequired == "Employee ID is required"
ErrNameRequired == "Employee Name is required"
ErrIdExists == "Employee ID already exists. Please use a unique ID."
ErrNotFound == "Employee not found"
ErrNoDataRow == "Excel file must have at least a header row and one data row."
ErrNoColumns == "Excel file must contain \"Employee_ID\" and \"Employee_Name\" columns."
ErrNoValid == "No valid employees found in the Excel file."
ErrReading == "Error reading Excel file. Please ensure it is a valid Excel file."
ErrNeedTwo == "Need at least 2 employees for Secret Santa!"
ErrUnable == "Unable to create valid Secret Santa assignments. Please try again."
ErrNoAvailable == "No available employees to assign! All employees may already be assigned."

(***************************************************************************)
(* Bulk draw: the computation of the setTimeout callback, lines 503-560.   *)
(***************************************************************************)
maxAttempts == 100

Swap(arr, i, j) == [arr EXCEPT ![i] = arr[j], ![j] = arr[i]]

\* Fisher-Yates, lines 510-513 and 548-551: for i = n-1 down to 1, swap
\* arr[i] with arr[j], j drawn from 0..i.  The set of arrays it can leave.
RECURSIVE ShuffleFrom(_, _)
ShuffleFrom(arr, i) ==
    IF i <= 0 THEN {arr}
    ELSE UNION {ShuffleFrom(Swap(arr, i + 1, j + 1), i - 1) : j \in 0..i}

FisherYates(arr) == ShuffleFrom(arr, Len(arr) - 1)

\* a pairing without the forward scan: the slot at the employee's own position
FindAssignedIndexNoScan(emps, shuffled, i, assignedIndex, retries) == assignedIndex

\* lines 529-532: the forward scan for a slot of shuffled that is not employees[i]
RECURSIVE FindAssignedIndex(_, _, _, _, _)
FindAssignedIndex(emps, shuffled, i, assignedIndex, retries) ==
    IF At0(emps, i).id = At0(shuffled, assignedIndex).id /\ retries < Len(emps)
    THEN FindAssignedIndex(emps, shuffled, i, (assignedIndex + 1) % Len(emps), retries + 1)
    ELSE assignedIndex

\* a mutant of PairFrom: an employee whose scan fails is skipped, the attempt
\* still counts as valid
RECURSIVE PairFromSkipping(_, _, _, _)
PairFromSkipping(emps, shuffled, i, temp) ==
    IF i >= Len(emps) THEN [valid |-> TRUE, temp |-> temp]
    ELSE IF At0(emps, i).id = At0(shuffled, i).id
    THEN PairFromSkipping(emps, shuffled, i + 1, temp)
    ELSE PairFromSkipping(emps, shuffled, i + 1,
                          Put(temp, At0(emps, i).id, At0(shuffled, i).id))

\* a mutant of PairFrom: no scan, and the check of lines 534-537 is missing
RECURSIVE PairFromNoSelfCheck(_, _, _, _)
PairFromNoSelfCheck(emps, shuffled, i, temp) ==
    IF i >= Len(emps) THEN [valid |-> TRUE, temp |-> temp]
    ELSE PairFromNoSelfCheck(emps, shuffled, i + 1,
                             Put(temp, At0(emps, i).id, At0(shuffled, i).id))

\* lines 524-540: one pairing attempt, from position i on
RECURSIVE PairFrom(_, _, _, _)
PairFrom(emps, shuffled, i, temp) ==
    IF i >= Len(emps) THEN [valid |-> TRUE, temp |-> temp]
    ELSE LET a == FindAssignedIndex(emps, shuffled, i, i, 0)
         IN  IF At0(emps, i).id = At0(shuffled, a).id
             THEN [valid |-> FALSE, temp |-> temp]
             ELSE PairFrom(emps, shuffled, i + 1,
                           Put(temp, At0(emps, i).id, At0(shuffled, a).id))

\* lines 521-540
PairingAttempt(emps, shuffled) == PairFrom(emps, shuffled, 0, NoAssignments)

\* the arrays of shuffleds whose pairing attempt fails (valid = false, line 535)
InvalidShuffles(emps, shuffleds) ==
    {s \in shuffleds : ~PairingAttempt(emps, s).valid}

\* lines 542-545: the finalAssignments the arrays of shuffleds can give
ValidAssignments(emps, shuffleds) ==
    {PairingAttempt(emps, s).temp : s \in shuffleds \ InvalidShuffles(emps, shuffleds)}

\* lines 547-551: the arrays a reshuffle of a failed array can leave
Reshuffled(emps, shuffleds) ==
    UNION {FisherYates(s) : s \in InvalidShuffles(emps, shuffleds)}

\* a loop without the test of the attempt counter
AttemptStepUnbounded(emps, st) ==
    IF st.shuffleds = {} THEN st
    ELSE [shuffleds |-> Reshuffled(emps, st.shuffleds),
          found     |-> st.found \cup ValidAssignments(emps, st.shuffleds),
          attempts  |-> st.attempts + 1]

\* lines 520-553, one pass of the while loop over every way the random
\* choices can go.  st.shuffleds: the arrays `shuffled` can hold on the runs
\* still in the loop; st.found: the finalAssignments of the runs that left it
\* by the break of line 544; st.attempts: the counter of line 516.
AttemptStep(emps, st) ==
    IF st.attempts >= maxAttempts \/ st.shuffleds = {} THEN st
    ELSE [shuffleds |-> Reshuffled(emps, st.shuffleds),
          found     |-> st.found \cup ValidAssignments(emps, st.shuffleds),
          attempts  |-> st.attempts + 1]

\* n passes of the loop (halving keeps the evaluation shallow)
RECURSIVE Passes(_, _, _)
Passes(emps, st, n) ==
    IF n = 0 THEN st
    ELSE IF n = 1 THEN AttemptStep(emps, st)
    ELSE CHOOSE last \in {Passes(emps, mid, n - (n \div 2)) :
                               mid \in {Passes(emps, st, n \div 2)}} : TRUE

\* lines 507-553: every finalAssignments the callback can compute for the
\* employees it captured; {} (NoAssignments) when the loop ran out of attempts
BulkOutcomes(emps) ==
    LET first == [shuffleds |-> FisherYates(emps), found |-> {}, attempts |-> 0]
        last  == Passes(emps, first, maxAttempts)
    IN  last.found \cup (IF last.shuffleds # {} THEN {NoAssignments} ELSE {})

(***************************************************************************)
(* Lookups used by the handlers and by the markup.                         *)
(***************************************************************************)
\* employees.find(e => e.id === id), for an id that some employee carries
FindById(emps, id) ==
    emps[CHOOSE i \in DOMAIN emps :
             emps[i].id = id /\ \A j \in DOMAIN emps : emps[j].id = id => i <= j]

\* lines 662-669: the id of the assigned employee; Null when there is no
\* entry or when no employee carries the assigned id
getSecretSantaAssignment(employeeId) ==
    IF employeeId \in DOMAIN secretSantaAssignments
       /\ secretSantaAssignments[employeeId] \in IdsOf(employees)
    THEN FindById(employees, secretSantaAssignments[employeeId]).id
    ELSE Null

\* a mutant of AvailableEmployees: the drawer is not excluded
AvailableEmployeesWithSelf(emps, assignments, employeeId) ==
    LET avail == SelectSeq(emps, LAMBDA emp : emp.id \notin Values(assignments))
    IN  [i \in 1..Len(avail) |-> avail[i].id]

\* a mutant of AvailableEmployees: employees already assigned are not excluded
AvailableEmployeesWithAssigned(emps, assignments, employeeId) ==
    LET avail == SelectSeq(emps, LAMBDA emp : emp.id # employeeId)
    IN  [i \in 1..Len(avail) |-> avail[i].id]

\* a filter on the employees who have drawn instead of those who were drawn
AvailableEmployeesNotDrawers(emps, assignments, employeeId) ==
    LET avail == SelectSeq(emps, LAMBDA emp :
                     emp.id # employeeId /\ emp.id \notin DOMAIN assignments)
    IN  [i \in 1..Len(avail) |-> avail[i].id]

\* a pool that falls back on every other employee when nobody is free
AvailableEmployeesOrAnyOther(emps, assignments, employeeId) ==
    LET avail == SelectSeq(emps, LAMBDA emp :
                     emp.id # employeeId /\ emp.id \notin Values(assignments))
        others == SelectSeq(emps, LAMBDA emp : emp.id # employeeId)
    IN  IF avail # <<>> THEN [i \in 1..Len(avail) |-> avail[i].id]
        ELSE [i \in 1..Len(others) |-> others[i].id]

\* lines 584-592: the ids of availableEmployees, in roster order
AvailableEmployees(emps, assignments, employeeId) ==
    LET avail == SelectSeq(emps, LAMBDA emp :
                     emp.id # employeeId /\ emp.id \notin Values(assignments))
    IN  [i \in 1..Len(avail) |-> avail[i].id]

\* a mutant of RemoveAssignmentsOf: only the entry keyed by the employee goes
RemoveKeyOnly(assignments, id) ==
    [k \in (DOMAIN assignments) \ {id} |-> assignments[k]]

\* lines 254-266: the updater handleDelete gives setSecretSantaAssignments
RemoveAssignmentsOf(assignments, id) ==
    LET newAssignments == [k \in (DOMAIN assignments) \ {id} |-> assignments[k]]
    IN  [k \in {e \in DOMAIN newAssignments : newAssignments[e] # id} |-> newAssignments[k]]

\* the overlay of lines 722-801 is rendered
SlotOverlayShown == showSlotSelection /\ currentDrawingEmployee # Null

(***************************************************************************)
(* Assignment engine: handlers and deferred callbacks.                     *)
(***************************************************************************)
\* a size test that lets a roster of one pass
FewerThanOne(emps) == Len(emps) < 1

\* line 486
FewerThanTwo(emps) == Len(emps) < 2

\* lines 485-500: the click on "Draw All" (disabled while isAnimating, line 978).
\* The button is rendered for 2 or more employees (line 973); the handler's own
\* test of lines 486-489 is modelled for every roster.
handleSecretSantaDraw ==
    /\ ~isAnimating
    /\ \/ /\ FewerThanTwo(employees)
          /\ error' = ErrNeedTwo
          /\ lastOp' = <<"handleSecretSantaDraw", Null, "rejected">>
          /\ UNCHANGED <<rosterVars, formVars, drawVars, importVars, operations,
                         drawsInSequence>>
       \/ /\ ~FewerThanTwo(employees)
          /\ isAnimating' = TRUE
          /\ error' = ErrNone
          /\ bulkTimer' = <<employees>>
          /\ lastOp' = <<"handleSecretSantaDraw", Null, "pending">>
          /\ UNCHANGED <<rosterVars, formVars, importVars, operations, secretSantaAssignments,
                         showSlotSelection, currentDrawingEmployee, availableSlots,
                         selectedSlot, slotTimers, drawsInSequence>>
    /\ Saved

\* the new entries written over the previous object
MergedInto(prev, finalAssignments) ==
    [k \in (DOMAIN prev) \cup (DOMAIN finalAssignments) |->
        IF k \in DOMAIN finalAssignments THEN finalAssignments[k] ELSE prev[k]]

\* line 562: setSecretSantaAssignments(finalAssignments) on the state prev
SetAssignments(prev, finalAssignments) == finalAssignments

\* lines 503-578: the callback of the 2 s timer, on the employees it captured
BulkTimeout ==
    /\ bulkTimer # <<>>
    /\ \E finalAssignments \in BulkOutcomes(bulkTimer[1]) :
          \/ /\ DOMAIN finalAssignments = {}
             /\ error' = ErrUnable
             /\ lastOp' = <<"BulkTimeout", bulkTimer[1], "failed">>
             /\ UNCHANGED <<secretSantaAssignments, drawsInSequence>>
          \/ /\ DOMAIN finalAssignments # {}
             /\ secretSantaAssignments' = SetAssignments(secretSantaAssignments,
                                                         finalAssignments)
             /\ lastOp' = <<"BulkTimeout", bulkTimer[1], "assigned">>
             /\ drawsInSequence' = FALSE
             /\ UNCHANGED error
    /\ isAnimating' = FALSE
    /\ bulkTimer' = <<>>
    /\ UNCHANGED <<rosterVars, formVars, importVars, operations, showSlotSelection,
                   currentDrawingEmployee, availableSlots, selectedSlot, slotTimers>>
    /\ Saved

\* lines 582-618: the click on an employee's "Draw" button, which is rendered
\* for a row without a resolvable assignment when there are 2 or more
\* employees (lines 1082-1103) and disabled while isAnimating
handleIndividualDraw(employeeId) ==
    /\ employeeId \in IdsOf(employees)
    /\ Len(employees) >= 2
    /\ ~isAnimating
    /\ getSecretSantaAssignment(employeeId) = Null
    /\ LET availableEmployees ==
               AvailableEmployees(employees, secretSantaAssignments, employeeId)
       IN  \/ /\ Len(availableEmployees) = 0
              /\ error' = ErrNoAvailable
              /\ lastOp' = <<"handleIndividualDraw", employeeId, "rejected">>
              /\ UNCHANGED <<rosterVars, formVars, drawVars, importVars, operations,
                         drawsInSequence>>
           \/ /\ Len(availableEmployees) # 0
              /\ currentDrawingEmployee' = FindById(employees, employeeId).id
              /\ availableSlots' = availableEmployees
              /\ selectedSlot' = Null
              /\ showSlotSelection' = TRUE
              /\ error' = ErrNone
              /\ lastOp' = <<"handleIndividualDraw", employeeId, "opened">>
              /\ drawsInSequence' = (drawsInSequence /\ slotTimers = <<>>)
              /\ UNCHANGED <<rosterVars, formVars, importVars, operations, secretSantaAssignments,
                             isAnimating, bulkTimer, slotTimers>>
    /\ Saved

\* the index of the clicked slot as the index of the pick
ClickedIndex(slots, slotIndex) == {slotIndex}

\* line 627: the values of Math.floor(Math.random() * availableSlots.length)
\* in the handler called with slotIndex
RandomIndices(slots, slotIndex) == 0..(Len(slots) - 1)

\* lines 621-650: the click on an available slot of the overlay (line 764);
\* the timer keeps the drawer and the employee picked at random
handleSlotSelect(slotIndex) ==
    /\ SlotOverlayShown
    /\ slotIndex \in 0..(Len(availableSlots) - 1)
    /\ slotIndex # selectedSlot
    /\ \/ /\ selectedSlot # Null
          /\ lastOp' = <<"handleSlotSelect", Null, "ignored">>
          /\ UNCHANGED <<rosterVars, formVars, drawVars, importVars, operations,
                         error, drawsInSequence>>
       \/ /\ selectedSlot = Null
          /\ Len(slotTimers) < MaxSlotTimers
          /\ selectedSlot' = slotIndex
          /\ \E randomIndex \in RandomIndices(availableSlots, slotIndex) :
                slotTimers' = Append(slotTimers,
                    [drawer   |-> currentDrawingEmployee,
                     assigned |-> At0(availableSlots, randomIndex),
                     tornDown |-> FALSE,
                     deleted  |-> FALSE])
          /\ lastOp' = <<"handleSlotSelect", Null, "selected">>
          /\ UNCHANGED <<rosterVars, formVars, importVars, operations, error,
                         secretSantaAssignments, isAnimating, showSlotSelection,
                         currentDrawingEmployee, availableSlots, bulkTimer,
                         drawsInSequence>>
    /\ Saved

\* lines 631-649: the callback of the 800 ms timer
SlotTimeout ==
    /\ slotTimers # <<>>
    /\ LET t == Head(slotTimers)
       IN  /\ secretSantaAssignments' = Put(secretSantaAssignments, t.drawer, t.assigned)
           /\ lastOp' = <<"SlotTimeout", t, "assigned">>
    /\ showSlotSelection' = FALSE
    /\ currentDrawingEmployee' = Null
    /\ availableSlots' = <<>>
    /\ selectedSlot' = Null
    /\ slotTimers' = Tail(slotTimers)
    /\ UNCHANGED <<rosterVars, formVars, importVars, operations, error, isAnimating, bulkTimer,
                   drawsInSequence>>
    /\ Saved

\* lines 653-659: the click on the overlay or on its close button.  The
\* tornDown field of a timer is history: the draw it belongs to was closed.
handleCloseSlotSelection ==
    /\ SlotOverlayShown
    /\ showSlotSelection' = FALSE
    /\ currentDrawingEmployee' = Null
    /\ availableSlots' = <<>>
    /\ selectedSlot' = Null
    /\ slotTimers' = [i \in DOMAIN slotTimers |->
                        IF selectedSlot # Null /\ i = Len(slotTimers)
                        THEN [slotTimers[i] EXCEPT !.tornDown = TRUE]
                        ELSE slotTimers[i]]
    /\ lastOp' = <<"handleCloseSlotSelection", Null, "closed">>
    /\ UNCHANGED <<rosterVars, formVars, importVars, operations, error,
                   secretSantaAssignments, isAnimating, bulkTimer, drawsInSequence>>
    /\ Saved

\* lines 249-273: the click on a row's "Delete" button (disabled while
\* isAnimating, lines 1118 and 1205); confirmed is the answer to window.confirm.
\* The deleted field of a timer is history: its drawer or its target was
\* deleted after the selection.
handleDelete(id, confirmed) ==
    /\ id \in IdsOf(employees)
    /\ ~isAnimating
    /\ \/ /\ confirmed
          /\ employees' = SelectSeq(employees, LAMBDA emp : emp.id # id)
          /\ Allocated
          /\ secretSantaAssignments' = RemoveAssignmentsOf(secretSantaAssignments, id)
          /\ IF editingId = id
             THEN formData' = BlankForm /\ editingId' = Null
             ELSE UNCHANGED formVars
          /\ slotTimers' = [i \in DOMAIN slotTimers |->
                              IF id \in {slotTimers[i].drawer, slotTimers[i].assigned}
                              THEN [slotTimers[i] EXCEPT !.deleted = TRUE]
                              ELSE slotTimers[i]]
          /\ lastOp' = <<"handleDelete", [id |-> id, before |-> secretSantaAssignments],
                         "deleted">>
          /\ Counted
          /\ UNCHANGED <<lastId, importVars, error, isAnimating, showSlotSelection,
                         currentDrawingEmployee, availableSlots, selectedSlot, bulkTimer,
                         drawsInSequence>>
       \/ /\ ~confirmed
          /\ lastOp' = <<"handleDelete", Null, "declined">>
          /\ UNCHANGED <<rosterVars, formVars, drawVars, importVars, operations,
                         error, drawsInSequence>>
    /\ Saved

\* a handler that clears whatever window.confirm answered
handleClearUnasked(confirmed) ==
    /\ Len(employees) >= 2
    /\ DOMAIN secretSantaAssignments # {}
    /\ secretSantaAssignments' = NoAssignments
    /\ lastOp' = <<"handleClearSecretSanta", Null,
                   IF confirmed THEN "cleared" ELSE "declined">>
    /\ drawsInSequence' = (drawsInSequence \/ (~showSlotSelection /\ slotTimers = <<>>))
    /\ UNCHANGED <<rosterVars, formVars, importVars, operations, error, isAnimating,
                   showSlotSelection, currentDrawingEmployee, availableSlots,
                   selectedSlot, bulkTimer, slotTimers>>
    /\ Saved

\* lines 672-678: the click on "Clear Assignments", rendered when there are
\* at least 2 employees and one assignment (lines 973-997)
handleClearSecretSanta(confirmed) ==
    /\ Len(employees) >= 2
    /\ DOMAIN secretSantaAssignments # {}
    /\ \/ /\ confirmed
          /\ secretSantaAssignments' = NoAssignments
          /\ lastOp' = <<"handleClearSecretSanta", Null, "cleared">>
          /\ drawsInSequence' = (drawsInSequence \/ (~showSlotSelection /\ slotTimers = <<>>))
          /\ UNCHANGED <<rosterVars, formVars, importVars, operations, error, isAnimating,
                         showSlotSelection, currentDrawingEmployee, availableSlots,
                         selectedSlot, bulkTimer, slotTimers>>
       \/ /\ ~confirmed
          /\ lastOp' = <<"handleClearSecretSanta", Null, "declined">>
          /\ UNCHANGED <<rosterVars, formVars, drawVars, importVars, operations,
                         error, drawsInSequence>>
    /\ Saved

(***************************************************************************)
(* Roster: the form, create, update, edit, cancel.                         *)
(***************************************************************************)
\* a mutant of EmpnidExists: the codes are compared as they are written
EmpnidExistsCaseSensitive(emps, empnid, exceptId) ==
    \E i \in DOMAIN emps :
        /\ emps[i].empnid = empnid
        /\ emps[i].id # exceptId

\* lines 156, 163-165, 190-192, 225-228: employees.some(...) on the lower-cased
\* code; exceptId is the editingId of an update, Null for a create
EmpnidExists(emps, empnid, exceptId) ==
    \E i \in DOMAIN emps :
        /\ toLowerCase(emps[i].empnid) = toLowerCase(empnid)
        /\ emps[i].id # exceptId

\* lines 137-173: the error validateForm sets, ErrNone when it returns true
validateForm(form, editing, emps) ==
    LET trimmedEmpnid == trim(form.empnid)
        trimmedName   == trim(form.name)
    IN  IF trimmedEmpnid = EmptyStr THEN ErrIdRequired
        ELSE IF trimmedName = EmptyStr THEN ErrNameRequired
        ELSE IF EmpnidExists(emps, trimmedEmpnid, editing) THEN ErrIdExists
        ELSE ErrNone

\* an import is between the choice of its file and its commit
ImportInFlight == fileReader # <<>> \/ showImportPopup

\* lines 176-203, submitted with the form holding typed (lines 127-134 put it
\* there and clear the error).  The form submits to handleCreate while
\* editingId is null (line 894).
handleCreate(typed) ==
    /\ editingId = Null
    /\ LET invalid == validateForm(typed, editingId, employees)
           nextId == lastId + 1
           newEmployee == [id |-> nextId, empnid |-> trim(typed.empnid),
                           name |-> trim(typed.name)]
       IN  \/ /\ invalid # ErrNone
              /\ error' = invalid
              /\ formData' = typed
              /\ Counted
              /\ UNCHANGED <<rosterVars, editingId, drawVars, importVars, lastOp, drawsInSequence>>
           \/ /\ invalid = ErrNone
              /\ EmpnidExists(employees, newEmployee.empnid, Null)
              /\ error' = ErrIdExists
              /\ formData' = typed
              /\ Counted
              /\ UNCHANGED <<rosterVars, editingId, drawVars, importVars, lastOp, drawsInSequence>>
           \/ /\ invalid = ErrNone
              /\ ~EmpnidExists(employees, newEmployee.empnid, Null)
              /\ Len(employees) < MaxGrownRoster + Len(bulkTimer)
              /\ nextId <= MaxLastId + Len(bulkTimer)
              /\ lastId' = nextId
              /\ employees' = Append(employees, newEmployee)
              /\ Allocated
              /\ formData' = BlankForm
              /\ error' = ErrNone
              /\ importsAlone' = (importsAlone /\ ~ImportInFlight)
              /\ Counted
              /\ UNCHANGED <<editingId, drawVars, fileReader, showImportPopup,
                             importDuplicates, pendingImportEmployees, importValidCount,
                      lastOp, drawsInSequence>>
    /\ Saved

\* lines 276-284: the click on a row's "Edit" button (disabled while isAnimating)
handleEdit(id) ==
    /\ id \in IdsOf(employees)
    /\ ~isAnimating
    /\ formData' = [empnid |-> FindById(employees, id).empnid,
                    name   |-> FindById(employees, id).name]
    /\ editingId' = id
    /\ error' = ErrNone
    /\ Counted
    /\ UNCHANGED <<rosterVars, drawVars, importVars, lastOp, drawsInSequence>>
    /\ Saved

\* lines 287-291: the "Cancel" button, rendered while editing (line 940)
handleCancel ==
    /\ editingId # Null
    /\ formData' = BlankForm
    /\ editingId' = Null
    /\ error' = ErrNone
    /\ Counted
    /\ UNCHANGED <<rosterVars, drawVars, importVars, lastOp, drawsInSequence>>
    /\ Saved

\* a mutant of ReplaceMember: the updated member moves to the end
ReplaceMemberAtEnd(emps, id, updatedEmployee) ==
    Append(SelectSeq(emps, LAMBDA emp : emp.id # id), updatedEmployee)

\* lines 235-241: prev.map(emp => emp.id === editingId ? updatedEmployee : emp)
ReplaceMember(emps, id, updatedEmployee) ==
    [i \in DOMAIN emps |-> IF emps[i].id = id THEN updatedEmployee ELSE emps[i]]

\* lines 206-246, submitted with typedName in the name field; the code field
\* is disabled while editing (line 904) and holds what handleEdit put there
handleUpdate(typedName) ==
    /\ editingId # Null
    /\ LET form == [formData EXCEPT !.name = typedName]
           invalid == validateForm(form, editingId, employees)
           updatedEmployee == [id |-> editingId, empnid |-> trim(form.empnid),
                               name |-> trim(form.name)]
       IN  \/ /\ invalid # ErrNone
              /\ error' = invalid
              /\ formData' = form
              /\ Counted
              /\ UNCHANGED <<rosterVars, editingId, drawVars, importVars, lastOp, drawsInSequence>>
           \/ /\ invalid = ErrNone
              /\ editingId \notin IdsOf(employees)
              /\ error' = ErrNotFound
              /\ formData' = form
              /\ Counted
              /\ UNCHANGED <<rosterVars, editingId, drawVars, importVars, lastOp, drawsInSequence>>
           \/ /\ invalid = ErrNone
              /\ editingId \in IdsOf(employees)
              /\ EmpnidExists(employees, updatedEmployee.empnid, editingId)
              /\ error' = ErrIdExists
              /\ formData' = form
              /\ Counted
              /\ UNCHANGED <<rosterVars, editingId, drawVars, importVars, lastOp, drawsInSequence>>
           \/ /\ invalid = ErrNone
              /\ editingId \in IdsOf(employees)
              /\ ~EmpnidExists(employees, updatedEmployee.empnid, editingId)
              /\ employees' = ReplaceMember(employees, editingId, updatedEmployee)
              /\ Allocated
              /\ formData' = BlankForm
              /\ editingId' = Null
              /\ error' = ErrNone
              /\ Counted
              /\ UNCHANGED <<lastId, drawVars, importVars, lastOp, drawsInSequence>>
    /\ Saved

(***************************************************************************)
(* Roster: sample generation, lines 294-350.                               *)
(***************************************************************************)
\* String.prototype.padStart(targetLength, padChar)
RECURSIVE padStart(_, _, _)
padStart(str, targetLength, padChar) ==
    IF Len(str) >= targetLength THEN str
    ELSE padStart(<<padChar>> \o str, targetLength, padChar)

\* line 327: `EMP${String(i + 1).padStart(3, '0')}`
SampleEmpnid(i) == <<"E", "M", "P">> \o padStart(String(i + 1), 3, "0")

\* lines 296-318 and 325: the sample names, by their initials
sampleNames == << <<"R", "K">>, <<"P", "S">>, <<"A", "P">>, <<"S", "R">>, <<"V", "S">> >>
SampleName(i) ==
    IF i < Len(sampleNames) THEN At0(sampleNames, i)
    ELSE <<"E", "m", "p", "l", "o", "y", "e", "e", " ">> \o String(i + 1)

\* lines 331-335: the while loop that looks for a code nobody has
RECURSIVE FreeSampleEmpnid(_, _, _, _, _)
FreeSampleEmpnid(existingEmpnids, newEmployees, i, empnid, counter) ==
    IF toLowerCase(empnid) \in existingEmpnids
       \/ \E k \in DOMAIN newEmployees :
             toLowerCase(newEmployees[k].empnid) = toLowerCase(empnid)
    THEN FreeSampleEmpnid(existingEmpnids, newEmployees, i,
                          SampleEmpnid(i) \o <<"-">> \o String(counter), counter + 1)
    ELSE empnid

\* lines 324-344: the for loop, from i on
RECURSIVE GenerateFrom(_, _, _, _)
GenerateFrom(existingEmpnids, i, newEmployees, currentLastId) ==
    IF i >= SampleCount THEN newEmployees
    ELSE GenerateFrom(existingEmpnids, i + 1,
            Append(newEmployees,
                   [id |-> currentLastId + 1,
                    empnid |-> FreeSampleEmpnid(existingEmpnids, newEmployees, i,
                                                SampleEmpnid(i), 1),
                    name |-> SampleName(i)]),
            currentLastId + 1)

\* line 320 and 388: new Set(employees.map(emp => emp.empnid.toLowerCase()))
LowerEmpnids(emps) == {toLowerCase(emps[i].empnid) : i \in DOMAIN emps}

\* lines 294-350: the click on "Generate 100 Employees"
handleGenerate100Employees(confirmed) ==
    \/ /\ confirmed
       /\ Len(employees) + SampleCount <= MaxGrownRoster
       /\ lastId + SampleCount <= MaxLastId
       /\ LET newEmployees == GenerateFrom(LowerEmpnids(employees), 0, <<>>, lastId)
          IN  /\ lastId' = lastId + SampleCount
              /\ employees' = employees \o newEmployees
              /\ Allocated
       /\ error' = ErrNone
       /\ importsAlone' = (importsAlone /\ ~ImportInFlight)
       /\ Counted
       /\ UNCHANGED <<formVars, drawVars, fileReader, showImportPopup,
                      importDuplicates, pendingImportEmployees, importValidCount,
                      lastOp, drawsInSequence>>
       /\ Saved
    \/ /\ ~confirmed
       /\ UNCHANGED <<rosterVars, formVars, drawVars, importVars, operations, error,
                      lastOp, drawsInSequence>>
       /\ Saved

(***************************************************************************)
(* Roster: Excel import, lines 353-482.  A file is [readable, headers,     *)
(* rows]: readable says that XLSX reads it without throwing (lines 359-364 *)
(* and 461-465), headers are the cells of the header row (lines 373-385);  *)
(* rows are the data rows, each [empnid, name] with the cells of the id    *)
(* column and of the name column, EmptyStr for an empty cell.              *)
(***************************************************************************)
\* String.prototype.includes
includes(str, fragment) ==
    \E i \in 1..(Len(str) - Len(fragment) + 1) :
        SubSeq(str, i, i + Len(fragment) - 1) = fragment

\* the fragments of lines 378 and 379
employeeIdFragments ==
    {<<"e", "m", "p", "l", "o", "y", "e", "e", "_", "i", "d">>,
     <<"e", "m", "p", "l", "o", "y", "e", "e", " ", "i", "d">>,
     <<"e", "m", "p", "n", "i", "d">>,
     <<"e", "m", "p", " ", "i", "d">>}
employeeNameFragments ==
    {<<"e", "m", "p", "l", "o", "y", "e", "e", "_", "n", "a", "m", "e">>,
     <<"e", "m", "p", "l", "o", "y", "e", "e", " ", "n", "a", "m", "e">>,
     <<"n", "a", "m", "e">>}

\* headers.findIndex(h => some fragment is in h) on the header cells of line
\* 374, lower-cased and trimmed; -1 when no cell matches
findIndex(cells, fragments) ==
    LET headers == [k \in DOMAIN cells |-> trim(toLowerCase(cells[k]))]
        hits == {k \in DOMAIN headers : \E f \in fragments : includes(headers[k], f)}
    IN  IF hits = {} THEN -1 ELSE (CHOOSE k \in hits : \A l \in hits : k <= l) - 1

\* a header check that lets every header row pass
AnyHeaders(file) == TRUE

\* lines 378-385: the header row has an id column and a name column
HasRequiredColumns(file) ==
    ~(findIndex(file.headers, employeeIdFragments) = -1
      \/ findIndex(file.headers, employeeNameFragments) = -1)

DuplicateInFile == "Duplicate Employee ID in Excel file"
DuplicateInSystem == "Employee ID already exists in system"

\* lines 394-439: the loop over the data rows, from jsonData[i] on (jsonData[0]
\* is the header, so rows[i] is jsonData[i]); acc holds newEmployees,
\* duplicates, seenInFile and currentLastId
RECURSIVE ProcessRows(_, _, _, _)
ProcessRows(rows, i, existingEmpnids, acc) ==
    IF i > Len(rows) THEN acc
    ELSE LET empnid == trim(rows[i].empnid)
             name == trim(rows[i].name)
             empnidLower == toLowerCase(empnid)
         IN  IF empnid = EmptyStr \/ name = EmptyStr
             THEN ProcessRows(rows, i + 1, existingEmpnids, acc)
             ELSE IF empnidLower \in acc.seenInFile
             THEN ProcessRows(rows, i + 1, existingEmpnids,
                     [acc EXCEPT !.duplicates = Append(@,
                         [row |-> i + 1, empnid |-> empnid, name |-> name,
                          reason |-> DuplicateInFile])])
             ELSE IF empnidLower \in existingEmpnids
             THEN ProcessRows(rows, i + 1, existingEmpnids,
                     [acc EXCEPT !.duplicates = Append(@,
                         [row |-> i + 1, empnid |-> empnid, name |-> name,
                          reason |-> DuplicateInSystem])])
             ELSE ProcessRows(rows, i + 1, existingEmpnids,
                     [acc EXCEPT !.seenInFile = @ \cup {empnidLower},
                                 !.currentLastId = @ + 1,
                                 !.newEmployees = Append(@,
                                     [id |-> acc.currentLastId + 1,
                                      empnid |-> empnid, name |-> name])])

\* the loop with an empty set for existingEmpnids
ReconcileIgnoringRoster(existingEmpnids, last, rows) ==
    ProcessRows(rows, 1, {},
                [newEmployees |-> <<>>, duplicates |-> <<>>, seenInFile |-> {},
                 currentLastId |-> last])

\* lines 389-439 on the existingEmpnids and lastId of the render the handler
\* belongs to
ReconcileImport(existingEmpnids, last, rows) ==
    ProcessRows(rows, 1, existingEmpnids,
                [newEmployees |-> <<>>, duplicates |-> <<>>, seenInFile |-> {},
                 currentLastId |-> last])

\* lines 353-358 and 468: a file is chosen; the reader's onload captures the
\* employees and lastId of this render.  Of the captured employees onload
\* reads only the set of line 388, so the closure is kept as that set.
handleExcelImport(file) ==
    /\ Len(fileReader) < MaxFileReaders
    /\ fileReader' = Append(fileReader,
                            [existingEmpnids |-> LowerEmpnids(employees), lastId |-> lastId,
                             file |-> file])
    /\ importsAlone' = (importsAlone /\ ~ImportInFlight)
    /\ Counted
    /\ UNCHANGED <<rosterVars, formVars, drawVars, error, showImportPopup,
                   importDuplicates, pendingImportEmployees, importValidCount,
                      lastOp, drawsInSequence>>
    /\ Saved

\* lines 358-466: reader.onload
FileReaderOnload ==
    /\ fileReader # <<>>
    /\ LET closure == Head(fileReader)
           rows == closure.file.rows
           result == ReconcileImport(closure.existingEmpnids, closure.lastId, rows)
       IN  \/ /\ ~closure.file.readable
              /\ error' = ErrReading
              /\ Counted
              /\ UNCHANGED <<rosterVars, showImportPopup, importDuplicates,
                             pendingImportEmployees, importValidCount>>
           \/ /\ closure.file.readable
              /\ Len(rows) < 1
              /\ error' = ErrNoDataRow
              /\ Counted
              /\ UNCHANGED <<rosterVars, showImportPopup, importDuplicates,
                             pendingImportEmployees, importValidCount>>
           \/ /\ closure.file.readable
              /\ Len(rows) >= 1
              /\ ~HasRequiredColumns(closure.file)
              /\ error' = ErrNoColumns
              /\ Counted
              /\ UNCHANGED <<rosterVars, showImportPopup, importDuplicates,
                             pendingImportEmployees, importValidCount>>
           \/ /\ closure.file.readable
              /\ Len(rows) >= 1
              /\ HasRequiredColumns(closure.file)
              /\ Len(result.duplicates) > 0
              /\ result.currentLastId <= MaxLastId
              /\ importDuplicates' = result.duplicates
              /\ importValidCount' = Len(result.newEmployees)
              /\ pendingImportEmployees' = result.newEmployees
              /\ lastId' = result.currentLastId
              /\ showImportPopup' = TRUE
              /\ Counted
              /\ UNCHANGED <<employees, allocatedIds, error>>
           \/ /\ closure.file.readable
              /\ Len(rows) >= 1
              /\ HasRequiredColumns(closure.file)
              /\ Len(result.duplicates) = 0
              /\ Len(result.newEmployees) > 0
              /\ result.currentLastId <= MaxLastId
              /\ Len(employees) + Len(result.newEmployees) <= MaxGrownRoster
              /\ lastId' = result.currentLastId
              /\ employees' = employees \o result.newEmployees
              /\ Allocated
              /\ error' = ErrNone
              /\ Counted
              /\ UNCHANGED <<showImportPopup, importDuplicates,
                             pendingImportEmployees, importValidCount>>
           \/ /\ closure.file.readable
              /\ Len(rows) >= 1
              /\ HasRequiredColumns(closure.file)
              /\ Len(result.duplicates) = 0
              /\ Len(result.newEmployees) = 0
              /\ error' = ErrNoValid
              /\ Counted
              /\ UNCHANGED <<rosterVars, showImportPopup, importDuplicates,
                             pendingImportEmployees, importValidCount>>
    /\ fileReader' = Tail(fileReader)
    /\ UNCHANGED <<formVars, drawVars, importsAlone, lastOp, drawsInSequence>>
    /\ Saved

\* lines 472-482: the popup's OK button, its close button or its backdrop
handleImportConfirm ==
    /\ showImportPopup
    /\ Len(employees) + Len(pendingImportEmployees) <= MaxGrownRoster
    /\ IF Len(pendingImportEmployees) > 0
       THEN /\ employees' = employees \o pendingImportEmployees
            /\ Allocated
            /\ error' = ErrNone
       ELSE UNCHANGED <<employees, allocatedIds, error>>
    /\ showImportPopup' = FALSE
    /\ importDuplicates' = <<>>
    /\ importValidCount' = 0
    /\ pendingImportEmployees' = <<>>
    /\ Counted
    /\ UNCHANGED <<lastId, formVars, drawVars, fileReader, importsAlone, lastOp, drawsInSequence>>
    /\ Saved

(***************************************************************************)
(* Startup, lines 33-103: the load effects read localStorage into the      *)
(* state of a freshly constructed component; the save effects of lines     *)
(* 106-124 then run on the loaded state.  A page reload is the same step:  *)
(* it drops the pending timers and readers with the old component.         *)
(* employees_data is [kind, records]: kind is "absent" when the key is not *)
(* set, "corrupt" when JSON.parse throws, "notArray" when it returns a     *)
(* value that has no forEach, so that line 52 throws (both end in the      *)
(* catch of lines 84-86), and "array" when it is a list of records.  A     *)
(* field a record lacks is the falsy value of its type, which is all that  *)
(* line 53 tests.                                                          *)
(***************************************************************************)
NaN == Null - 1

IsDigit(c) == \E n \in 0..9 : Digit(n) = c

DigitOf(c) == CHOOSE n \in 0..9 : Digit(n) = c

RECURSIVE ParseDigits(_, _, _)
ParseDigits(str, i, value) ==
    IF i > Len(str) \/ ~IsDigit(str[i]) THEN value
    ELSE ParseDigits(str, i + 1, value * 10 + DigitOf(str[i]))

\* parseInt(str, 10) of a string that has no sign and no leading white space
parseInt(str) ==
    IF str = EmptyStr \/ ~IsDigit(str[1]) THEN NaN ELSE ParseDigits(str, 1, 0)

\* value || 0 on a number
OrZero(value) == IF value = NaN \/ value = 0 THEN 0 ELSE value

\* Array.prototype.sort with a comparator that never tells its arguments apart
KeepOrder(arr) == arr

\* uniqueEmployees.sort((a, b) => a.id - b.id) of line 69; the sort is stable
RECURSIVE InsertById(_, _)
InsertById(sorted, emp) ==
    IF sorted = <<>> \/ sorted[Len(sorted)].id <= emp.id THEN Append(sorted, emp)
    ELSE Append(InsertById(SubSeq(sorted, 1, Len(sorted) - 1), emp), sorted[Len(sorted)])

RECURSIVE SortFrom(_, _, _)
SortFrom(arr, i, sorted) ==
    IF i > Len(arr) THEN sorted ELSE SortFrom(arr, i + 1, InsertById(sorted, arr[i]))

SortById(arr) == SortFrom(arr, 1, <<>>)

\* the forEach of lines 52-67 from record i on; acc is [uniqueEmployees,
\* seenEmpnids, maxId]
RECURSIVE LoadEach(_, _, _)
LoadEach(parsedEmployees, i, acc) ==
    IF i > Len(parsedEmployees) THEN acc
    ELSE LET emp == parsedEmployees[i]
         IN  IF /\ emp.id # 0
                /\ emp.empnid # EmptyStr
                /\ emp.name # EmptyStr
                /\ toLowerCase(emp.empnid) \notin acc.seenEmpnids
             THEN LoadEach(parsedEmployees, i + 1,
                      [uniqueEmployees |-> Append(acc.uniqueEmployees,
                                                  [id |-> emp.id,
                                                   empnid |-> trim(emp.empnid),
                                                   name |-> trim(emp.name)]),
                       seenEmpnids |-> acc.seenEmpnids \cup {toLowerCase(emp.empnid)},
                       maxId |-> IF emp.id > acc.maxId THEN emp.id ELSE acc.maxId])
             ELSE LoadEach(parsedEmployees, i + 1, acc)

\* lines 34-41: the counter the load starts from
InitialLastId(savedLastId) ==
    IF savedLastId # EmptyStr THEN OrZero(parseInt(savedLastId)) ELSE 0

\* a load whose catch clause starts the counter again
LoadEmployeesResetting(savedEmployees, savedLastId) ==
    LET initialLastId == InitialLastId(savedLastId)
        loaded == LoadEach(savedEmployees.records, 1,
                           [uniqueEmployees |-> <<>>, seenEmpnids |-> {}, maxId |-> 0])
    IN  IF savedEmployees.kind = "array"
        THEN [employees |-> SortById(loaded.uniqueEmployees),
              lastId |-> IF loaded.maxId > initialLastId THEN loaded.maxId
                         ELSE initialLastId]
        ELSE IF savedEmployees.kind = "absent"
        THEN [employees |-> <<>>, lastId |-> initialLastId]
        ELSE [employees |-> <<>>, lastId |-> 0]

\* lines 43-87: [employees, lastId] after the load effect
LoadEmployees(savedEmployees, savedLastId) ==
    LET initialLastId == InitialLastId(savedLastId)
        loaded == LoadEach(savedEmployees.records, 1,
                           [uniqueEmployees |-> <<>>, seenEmpnids |-> {}, maxId |-> 0])
    IN  IF savedEmployees.kind = "array"
        THEN [employees |-> SortById(loaded.uniqueEmployees),
              lastId |-> IF loaded.maxId > initialLastId THEN loaded.maxId
                         ELSE initialLastId]
        ELSE [employees |-> <<>>, lastId |-> initialLastId]

Mount ==
    /\ LET loaded == LoadEmployees(localStorage.employees_data,
                                   localStorage.employees_last_id)
       IN  /\ employees' = loaded.employees
           /\ lastId' = loaded.lastId
    /\ secretSantaAssignments' = localStorage.secret_santa_assignments
    /\ isLoaded' = TRUE
    /\ localStorage' = Stored(employees', lastId', secretSantaAssignments', localStorage)
    /\ loadedFrom' = <<localStorage>>
    /\ formData' = BlankForm
    /\ editingId' = Null
    /\ error' = ErrNone
    /\ isAnimating' = FALSE
    /\ showSlotSelection' = FALSE
    /\ currentDrawingEmployee' = Null
    /\ availableSlots' = <<>>
    /\ selectedSlot' = Null
    /\ bulkTimer' = <<>>
    /\ slotTimers' = <<>>
    /\ fileReader' = <<>>
    /\ showImportPopup' = FALSE
    /\ importDuplicates' = <<>>
    /\ pendingImportEmployees' = <<>>
    /\ importValidCount' = 0
    /\ Allocated
    /\ Counted
    /\ lastOp' = <<"mount", Null,
                   IF localStorage.employees_data.kind \in {"corrupt", "notArray"}
                   THEN "unreadable" ELSE "loaded">>
    /\ UNCHANGED <<importsAlone, drawsInSequence>>

(***************************************************************************)
(* Initial states.                                                         *)
(***************************************************************************)
\* the state of lines 10-30 with nothing persisted
Init ==
    /\ employees = <<>>
    /\ lastId = 0
    /\ formData = BlankForm
    /\ editingId = Null
    /\ error = ErrNone
    /\ secretSantaAssignments = NoAssignments
    /\ isAnimating = FALSE
    /\ showSlotSelection = FALSE
    /\ currentDrawingEmployee = Null
    /\ availableSlots = <<>>
    /\ selectedSlot = Null
    /\ bulkTimer = <<>>
    /\ slotTimers = <<>>
    /\ fileReader = <<>>
    /\ showImportPopup = FALSE
    /\ importDuplicates = <<>>
    /\ pendingImportEmployees = <<>>
    /\ importValidCount = 0
    /\ allocatedIds = IdsOf(employees)
    /\ importsAlone = TRUE
    /\ operations = 0
    /\ lastOp = <<"mount", Null, "loaded">>
    /\ drawsInSequence = TRUE
    /\ isLoaded = TRUE
    /\ loadedFrom = <<>>
    /\ localStorage = Stored(employees, lastId, secretSantaAssignments, <<>>)

\* the employee persisted at position p with id i
PersistedEmployee(p, i) == [id |-> i, empnid |-> <<"E", Digit(p)>>, name |-> <<"A">>]

\* rosters the mount effect of lines 33-90 can leave: ordered by id, codes
\* distinct, ids handed out from 1 on; a record may carry the id of the record
\* before it (the effect does not compare ids)
PersistedRosters ==
    UNION {
        {[p \in 1..n |-> PersistedEmployee(p, f[p])] :
            f \in {g \in [1..n -> 1..MaxRoster] :
                     /\ n >= 1 => g[1] = 1
                     /\ \A p \in 1..(n - 1) : g[p + 1] \in {g[p], g[p] + 1}}}
        : n \in 0..MaxRoster }

MaxOf(S) == IF S = {} THEN 0 ELSE CHOOSE x \in S : \A y \in S : y <= x

\* the state after mount with a roster persisted and no assignments persisted
InitDraw ==
    /\ employees \in PersistedRosters
    /\ lastId = MaxOf(IdsOf(employees))
    /\ formData = BlankForm
    /\ editingId = Null
    /\ error = ErrNone
    /\ secretSantaAssignments = NoAssignments
    /\ isAnimating = FALSE
    /\ showSlotSelection = FALSE
    /\ currentDrawingEmployee = Null
    /\ availableSlots = <<>>
    /\ selectedSlot = Null
    /\ bulkTimer = <<>>
    /\ slotTimers = <<>>
    /\ fileReader = <<>>
    /\ showImportPopup = FALSE
    /\ importDuplicates = <<>>
    /\ pendingImportEmployees = <<>>
    /\ importValidCount = 0
    /\ allocatedIds = IdsOf(employees)
    /\ importsAlone = TRUE
    /\ operations = 0
    /\ lastOp = <<"mount", Null, "loaded">>
    /\ drawsInSequence = TRUE
    /\ isLoaded = TRUE
    /\ loadedFrom = <<>>
    /\ localStorage = Stored(employees, lastId, secretSantaAssignments, <<>>)

(***************************************************************************)
(* The assignment engine over a persisted roster.                          *)
(***************************************************************************)
NextDraw ==
    \/ handleSecretSantaDraw
    \/ BulkTimeout
    \/ \E employeeId \in 1..MaxRoster : handleIndividualDraw(employeeId)
    \/ \E slotIndex \in 0..(MaxRoster - 1) : handleSlotSelect(slotIndex)
    \/ SlotTimeout
    \/ handleCloseSlotSelection
    \/ \E id \in 1..MaxRoster, confirmed \in BOOLEAN : handleDelete(id, confirmed)
    \/ \E confirmed \in BOOLEAN : handleClearSecretSanta(confirmed)

SpecDraw == InitDraw /\ [][NextDraw]_vars

(***************************************************************************)
(* The roster operations on a store that starts empty.                     *)
(***************************************************************************)
sEMP001 == <<"E", "M", "P", "0", "0", "1">>
semp001 == <<"e", "m", "p", "0", "0", "1">>
sRK == <<"R", "K">>

\* what the user types into the code field and into the name field
TypedEmpnids == {sEMP001, <<" ">> \o semp001, EmptyStr}
TypedNames == {sRK, <<" ">>}

\* what the user types into the name field of a member being edited
sB == <<"B">>
RetypedNames == {sB, <<" ">>}

\* header cells
hEmployeeID == <<"E", "m", "p", "l", "o", "y", "e", "e", "_", "I", "D">>
hEmployeeName == <<"E", "m", "p", "l", "o", "y", "e", "e", " ", "N", "a", "m", "e", " ">>
hSNo == <<"S", ".", "N", "o">>

\* the data rows a sheet can hold, and the sheets: every sheet of at most
\* MaxImportRows data rows under a header with both columns, and one sheet
\* under a header without them
SheetRows ==
    {[empnid |-> sEMP001, name |-> sRK], [empnid |-> semp001 \o <<" ">>, name |-> sRK],
     [empnid |-> EmptyStr, name |-> sRK]}
Sheets ==
    {[readable |-> TRUE, headers |-> <<hEmployeeID, hEmployeeName>>, rows |-> r] :
        r \in UNION {[1..n -> SheetRows] : n \in 0..MaxImportRows}}
    \cup {[readable |-> TRUE, headers |-> <<hSNo>>,
           rows |-> <<[empnid |-> sEMP001, name |-> sRK]>>],
          [readable |-> FALSE, headers |-> <<>>, rows |-> <<>>]}

NextRoster ==
    \/ \E empnid \in TypedEmpnids, name \in TypedNames :
          handleCreate([empnid |-> empnid, name |-> name])
    \/ \E id \in 1..MaxLastId : handleEdit(id)
    \/ handleCancel
    \/ \E name \in RetypedNames : handleUpdate(name)
    \/ \E id \in 1..MaxLastId, confirmed \in BOOLEAN : handleDelete(id, confirmed)
    \/ \E confirmed \in BOOLEAN : handleGenerate100Employees(confirmed)
    \/ \E file \in Sheets : handleExcelImport(file)
    \/ FileReaderOnload
    \/ handleImportConfirm
    \/ Mount

SpecRoster == Init /\ [][NextRoster]_vars

(***************************************************************************)
(* The form and the row buttons around a bulk draw, over a persisted       *)
(* roster: the form of lines 894-950 has no disabled attribute that reads  *)
(* isAnimating, the Edit and Delete buttons of lines 1107-1121 have.       *)
(***************************************************************************)
NextBulkWindow ==
    \/ handleSecretSantaDraw
    \/ BulkTimeout
    \/ \E empnid \in TypedEmpnids, name \in TypedNames :
          handleCreate([empnid |-> empnid, name |-> name])
    \/ \E id \in 1..MaxRoster : handleEdit(id)
    \/ handleCancel
    \/ \E id \in 1..MaxRoster, confirmed \in BOOLEAN : handleDelete(id, confirmed)

SpecBulkWindow == InitDraw /\ [][NextBulkWindow]_vars

(***************************************************************************)
(* Startup from whatever the three keys hold.                              *)
(***************************************************************************)
MaxSnapshot == 2

\* the records a snapshot can hold: with and without each field, with codes
\* that differ in case or in surrounding white space, with blank names
RawEmpnids == {sEMP001, semp001, <<" ">> \o sEMP001, EmptyStr}
RawNames == {sRK, <<" ">>, EmptyStr}
RawEmployees == [id : 0..MaxLastId, empnid : RawEmpnids, name : RawNames]

RawLists == UNION {[1..n -> RawEmployees] : n \in 0..MaxSnapshot}

\* what employees_last_id can hold: nothing, a counter, or no number
RawLastIds == {EmptyStr, <<"x">>} \cup {String(n) : n \in 0..MaxLastId}

Snapshots ==
    [employees_data : [kind : {"array"}, records : RawLists]
                      \cup [kind : {"absent", "corrupt", "notArray"}, records : {<<>>}],
     employees_last_id : RawLastIds,
     secret_santa_assignments : {NoAssignments}]

InitLoad ==
    /\ localStorage \in Snapshots
    /\ isLoaded = FALSE
    /\ loadedFrom = <<>>
    /\ employees = <<>>
    /\ lastId = 0
    /\ formData = BlankForm
    /\ editingId = Null
    /\ error = ErrNone
    /\ secretSantaAssignments = NoAssignments
    /\ isAnimating = FALSE
    /\ showSlotSelection = FALSE
    /\ currentDrawingEmployee = Null
    /\ availableSlots = <<>>
    /\ selectedSlot = Null
    /\ bulkTimer = <<>>
    /\ slotTimers = <<>>
    /\ fileReader = <<>>
    /\ showImportPopup = FALSE
    /\ importDuplicates = <<>>
    /\ pendingImportEmployees = <<>>
    /\ importValidCount = 0
    /\ allocatedIds = {}
    /\ importsAlone = TRUE
    /\ operations = 0
    /\ lastOp = <<"construct", Null, "constructed">>
    /\ drawsInSequence = TRUE

\* the load, and the "Add Employee" button of the loaded component
NextLoad ==
    \/ Mount
    \/ \E typed \in [empnid : TypedEmpnids, name : TypedNames] : handleCreate(typed)

SpecLoad == InitLoad /\ [][NextLoad]_vars

(***************************************************************************)
(* Imports alone, into a persisted roster of at most one member.           *)
(***************************************************************************)
MaxBatch == 3

\* the data rows of a batch: codes that are new, that repeat the roster's or
\* one another's in another letter case and with white space around them,
\* a row without a code and a row without a name; every name is the same
BatchRows ==
    [empnid : {<<"E", "1">>, <<"E", "2">>, <<" ", "e", "2", " ">>, EmptyStr},
     name : {<<"A">>}]
    \cup {[empnid |-> <<"E", "1">>, name |-> <<" ">>]}

Batches ==
    {[readable |-> TRUE, headers |-> <<hEmployeeID, hEmployeeName>>, rows |-> r] :
        r \in UNION {[1..n -> BatchRows] : n \in 1..MaxBatch}}
    \cup {[readable |-> TRUE, headers |-> h,
            rows |-> <<[empnid |-> <<"E", "2">>, name |-> <<"A">>]>>] :
             h \in {<<hSNo, hEmployeeName>>, <<hSNo, hEmployeeID>>, <<hSNo>>}}
    \cup {[readable |-> TRUE, headers |-> <<hSNo>>, rows |-> <<>>]}

InitImport ==
    /\ employees \in {r \in PersistedRosters : Len(r) <= 1}
    /\ lastId = MaxOf(IdsOf(employees))
    /\ isLoaded = TRUE
    /\ loadedFrom = <<>>
    /\ localStorage = Stored(employees, lastId, NoAssignments, <<>>)
    /\ formData = BlankForm
    /\ editingId = Null
    /\ error = ErrNone
    /\ secretSantaAssignments = NoAssignments
    /\ isAnimating = FALSE
    /\ showSlotSelection = FALSE
    /\ currentDrawingEmployee = Null
    /\ availableSlots = <<>>
    /\ selectedSlot = Null
    /\ bulkTimer = <<>>
    /\ slotTimers = <<>>
    /\ fileReader = <<>>
    /\ showImportPopup = FALSE
    /\ importDuplicates = <<>>
    /\ pendingImportEmployees = <<>>
    /\ importValidCount = 0
    /\ allocatedIds = IdsOf(employees)
    /\ importsAlone = TRUE
    /\ operations = 0
    /\ lastOp = <<"mount", Null, "loaded">>
    /\ drawsInSequence = TRUE

NextImport ==
    \/ \E file \in Batches : handleExcelImport(file)
    \/ FileReaderOnload
    \/ handleImportConfirm

SpecImport == InitImport /\ [][NextImport]_vars

(***************************************************************************)
(* Properties of the assignment engine.                                    *)
(***************************************************************************)
DistinctIds(emps) ==
    \A i, j \in DOMAIN emps : i # j => emps[i].id # emps[j].id

Injective(m) == \A a, b \in DOMAIN m : a # b => m[a] # m[b]

NoSelfAssignment(m) == \A k \in DOMAIN m : m[k] # k

\* the last step was the bulk draw's callback; lastOp[2] is the roster it drew on
BulkDrawRan == lastOp[1] = "BulkTimeout"
BulkDrawSucceeded == BulkDrawRan /\ lastOp[3] = "assigned"

\* the last step was the commit of an individual draw; lastOp[2] is its timer
IndividualDrawCommitted == lastOp[1] = "SlotTimeout"

\* the last step was a confirmed delete; lastOp[2] holds the id and the map before
DeleteConfirmed == lastOp[1] = "handleDelete" /\ lastOp[3] = "deleted"

\* C1: after a successful bulk draw on a roster of at least 2 members with
\* distinct ids, the keys of the assignment map are exactly the ids of that
\* roster, every value is an id of that roster, and no key maps to itself.
C1_BulkDrawTotalNoFixedPoint ==
    (BulkDrawSucceeded /\ Len(lastOp[2]) >= 2 /\ DistinctIds(lastOp[2]))
    => /\ DOMAIN secretSantaAssignments = IdsOf(lastOp[2])
       /\ Values(secretSantaAssignments) \subseteq IdsOf(lastOp[2])
       /\ NoSelfAssignment(secretSantaAssignments)

C1_Witness ==
    /\ BulkDrawSucceeded
    /\ Len(lastOp[2]) = 3
    /\ DistinctIds(lastOp[2])
    /\ Cardinality(DOMAIN secretSantaAssignments) = 3

\* C2: the map a bulk draw produces on a roster of at least 2 members with
\* distinct ids is a bijection: no two members get the same target and every
\* member is somebody's target.
C2_BulkDrawBijection ==
    (BulkDrawSucceeded /\ Len(lastOp[2]) >= 2 /\ DistinctIds(lastOp[2]))
    => /\ Injective(secretSantaAssignments)
       /\ Values(secretSantaAssignments) = IdsOf(lastOp[2])

\* C3: on a roster of exactly 2 members A and B the bulk draw succeeds and
\* yields A -> B, B -> A, whatever the shuffles do.
C3_TwoMembersSwap ==
    (BulkDrawRan /\ Len(lastOp[2]) = 2 /\ DistinctIds(lastOp[2]))
    => LET A == lastOp[2][1].id
           B == lastOp[2][2].id
       IN  /\ lastOp[3] = "assigned"
           /\ secretSantaAssignments = [k \in {A, B} |-> IF k = A THEN B ELSE A]

C3_Witness ==
    /\ BulkDrawSucceeded
    /\ Len(lastOp[2]) = 2
    /\ DistinctIds(lastOp[2])
    /\ DOMAIN secretSantaAssignments = IdsOf(lastOp[2])

\* C4: while the assignments come only from individual draws made one after
\* the other on an initially empty map, no member is the target of two drawers.
C4_SequentialDrawsInjective ==
    drawsInSequence => Injective(secretSantaAssignments)

C4_Witness ==
    /\ drawsInSequence
    /\ IndividualDrawCommitted
    /\ Cardinality(DOMAIN secretSantaAssignments) >= 2

\* C5: in every state reached by bulk draws, individual draws, deletions and
\* clears, no key of the assignment map maps to itself.
C5_NoSelfAssignment == NoSelfAssignment(secretSantaAssignments)

C5_Witness ==
    /\ IndividualDrawCommitted
    /\ ~drawsInSequence
    /\ Cardinality(DOMAIN secretSantaAssignments) >= 2

\* C6: a confirmed delete of id leaves no entry keyed by id and no entry valued
\* id, and keeps every other entry as it was; a declined delete changes nothing.
C6_DeleteCascades ==
    [][ /\ (lastOp'[1] = "handleDelete" /\ lastOp'[3] = "deleted")
           => LET id == lastOp'[2].id
                  kept == {k \in DOMAIN secretSantaAssignments :
                              k # id /\ secretSantaAssignments[k] # id}
              IN  /\ id \notin DOMAIN secretSantaAssignments'
                  /\ id \notin Values(secretSantaAssignments')
                  /\ DOMAIN secretSantaAssignments' = kept
                  /\ \A k \in kept :
                        secretSantaAssignments'[k] = secretSantaAssignments[k]
        /\ (lastOp'[1] = "handleDelete" /\ lastOp'[3] = "declined")
           => UNCHANGED <<rosterVars, formVars, drawVars, importVars, error>>
      ]_vars

C6_Witness ==
    /\ DeleteConfirmed
    /\ lastOp[2].id \in DOMAIN lastOp[2].before
    /\ lastOp[2].id \in Values(lastOp[2].before)
    /\ DOMAIN secretSantaAssignments # {}

\* C7: every key and every value of the assignment map is the id of a member
\* of the roster.
C7_AssignmentsReferToMembers ==
    (DOMAIN secretSantaAssignments) \cup Values(secretSantaAssignments)
        \subseteq IdsOf(employees)

(***************************************************************************)
(* Properties of the roster.                                               *)
(***************************************************************************)
\* no two members have the same code once both are lowercased
CodesUnique(emps) ==
    \A i, j \in DOMAIN emps :
        i # j => toLowerCase(emps[i].empnid) # toLowerCase(emps[j].empnid)

\* C8: in every state reached by creates, updates, deletes, imports (the
\* reconciliation, then the confirmation) and sample generations, no two
\* members of the roster have the same code under case-insensitive comparison.
C8_ExternalCodesUnique == CodesUnique(employees)

\* the codes stay unique as long as nothing was created, generated or imported
\* between the choice of a file and the commit of its rows
CodesUniqueWhenImportsAlone == importsAlone => CodesUnique(employees)

\* C9: the commit of an individual draw whose drawer or chosen candidate was
\* deleted after the selection fails with StaleDraw and leaves the map as it was.
C9_StaleDrawRejected ==
    [][ (lastOp'[1] = "SlotTimeout" /\ lastOp'[2].deleted)
        => /\ secretSantaAssignments' = secretSantaAssignments
           /\ error' = "StaleDraw"
      ]_vars

\* C10: the commit timer of an individual draw that was closed after the
\* selection does not change the assignment map.
C10_TornDownDrawCommitsNothing ==
    [][ (lastOp'[1] = "SlotTimeout" /\ lastOp'[2].tornDown)
        => secretSantaAssignments' = secretSantaAssignments
      ]_vars

\* a bulk draw's computation or an individual draw's commit is pending
DrawOutstanding == bulkTimer # <<>> \/ slotTimers # <<>>

\* this step starts a draw: "Draw All" went through, or "Draw" opened a pool
DrawStarts ==
    \/ bulkTimer = <<>> /\ bulkTimer' # <<>>
    \/ lastOp'[1] = "handleIndividualDraw" /\ lastOp'[3] = "opened"

\* C11: while a bulk draw's delayed computation or an individual draw's
\* delayed commit is pending, no step starts a bulk or an individual draw.
\* Stated for the states in which the slot overlay is not on the screen (the
\* selection was closed during the commit window), so that the draw buttons
\* of the page are in reach whatever the overlay covers.
C11_OneDrawOutstanding ==
    [][(DrawOutstanding /\ ~SlotOverlayShown) => ~DrawStarts]_vars

\* the forms the user submits
TypedForms == [empnid : TypedEmpnids, name : TypedNames]

\* a form whose code and name are not empty once trimmed
WellFormed(form) == trim(form.empnid) # EmptyStr /\ trim(form.name) # EmptyStr

\* the code, once trimmed, is the code of a member other than exceptId up to
\* the case of its letters
Collides(emps, code, exceptId) ==
    \E i \in DOMAIN emps :
        /\ emps[i].id # exceptId
        /\ toLowerCase(emps[i].empnid) = toLowerCase(trim(code))

\* C12: a create whose code equals an existing member's code up to letter
\* case fails with the duplicate-identifier error and leaves the roster, the
\* id counter and the assignment map unchanged; a create of any other
\* well-formed form appends one member whose id is counter+1 and advances the
\* counter by exactly 1; a form that is not well-formed changes none of them.
C12_CreateRejectsDuplicateOrAppends ==
    [][\A typed \in TypedForms :
          handleCreate(typed) =>
             IF WellFormed(typed) /\ ~Collides(employees, typed.empnid, Null)
             THEN /\ employees' = Append(employees,
                                         [id |-> lastId + 1,
                                          empnid |-> trim(typed.empnid),
                                          name |-> trim(typed.name)])
                  /\ lastId' = lastId + 1
                  /\ UNCHANGED secretSantaAssignments
             ELSE /\ WellFormed(typed) => error' = ErrIdExists
                  /\ UNCHANGED <<employees, lastId, secretSantaAssignments>>]_vars

\* a create was just rejected for a code that differs from a member's code
\* only by letter case or surrounding spaces
C12_Witness ==
    /\ editingId = Null
    /\ error = ErrIdExists
    /\ WellFormed(formData)
    /\ \E i \in DOMAIN employees :
          /\ employees[i].empnid # formData.empnid
          /\ employees[i].empnid # trim(formData.empnid)
          /\ toLowerCase(employees[i].empnid) = toLowerCase(trim(formData.empnid))

C14_CounterMonotoneAboveIds ==
    [][lastId' >= lastId /\ lastId' >= MaxOf(IdsOf(employees'))]_vars

\* the counter keeps its order as long as nothing was created, generated or
\* imported between the choice of a file and the commit of its rows
CounterMonotoneWhenImportsAlone ==
    [][importsAlone' => (lastId' >= lastId /\ lastId' >= MaxOf(IdsOf(employees')))]_vars

\* the members a step appends to the roster
Appended ==
    IF Len(employees') > Len(employees)
    THEN {employees'[i] : i \in (Len(employees) + 1)..Len(employees')}
    ELSE {}

\* C15: no two members of the roster share an id, and an id that a member has
\* had is never given to a member added later, also not after the member that
\* had it (the one with the highest id included) was deleted.
C15_IdsUniqueNeverReused ==
    [][/\ DistinctIds(employees')
       /\ \A emp \in Appended : emp.id \notin allocatedIds]_vars

\* the ids stay unique and are not handed out twice as long as nothing was
\* created, generated or imported between the choice of a file and the commit
\* of its rows
IdsUniqueWhenImportsAlone ==
    [][importsAlone' =>
          /\ DistinctIds(employees')
          /\ \A emp \in Appended : emp.id \notin allocatedIds]_vars

(***************************************************************************)
(* Properties of the startup load.                                         *)
(***************************************************************************)
\* the step is a load whose employees_data parsed to a list of records
LoadsList == loadedFrom' # <<>> /\ localStorage.employees_data.kind = "array"

\* record i of the list has the three fields and no earlier record that has
\* them carries its code in another letter case: an earlier record with the
\* same code either survived or lost to a still earlier survivor with that code
Survives(records, i) ==
    /\ records[i].id # 0
    /\ records[i].empnid # EmptyStr
    /\ records[i].name # EmptyStr
    /\ \A j \in 1..(i - 1) :
          (records[j].id # 0 /\ records[j].empnid # EmptyStr /\ records[j].name # EmptyStr)
             => toLowerCase(records[j].empnid) # toLowerCase(records[i].empnid)

Survivors(records) == {i \in DOMAIN records : Survives(records, i)}

\* the member a surviving record is stored as
StoredAs(record) ==
    [id |-> record.id, empnid |-> trim(record.empnid), name |-> trim(record.name)]

AscendingIds(emps) ==
    \A k, l \in DOMAIN emps : k < l => emps[k].id <= emps[l].id

C17_LoadIdempotent ==
    [][(loadedFrom # <<>> /\ loadedFrom' # <<>>)
          => employees' = employees /\ lastId' = lastId]_vars

\* loading the output of a load of a clean list leaves it as it is
LoadIdempotentOnCleanLists ==
    [][(loadedFrom # <<>> /\ loadedFrom' # <<>>
        /\ CodesUnique(employees)
        /\ \A k \in DOMAIN employees : employees[k].name # EmptyStr)
          => employees' = employees /\ lastId' = lastId]_vars

NamesNonEmpty(emps) == \A k \in DOMAIN emps : emps[k].name # EmptyStr

\* C18: whatever the keys held, the roster a load produces has unique ids,
\* codes that are unique letter case aside, and no empty name.
C18_LoadedRosterValid ==
    loadedFrom # <<>>
       => DistinctIds(employees) /\ CodesUnique(employees) /\ NamesNonEmpty(employees)

\* each of the three invariants alone, after a load
LoadedIdsUnique == loadedFrom # <<>> => DistinctIds(employees)
LoadedCodesUnique == loadedFrom # <<>> => CodesUnique(employees)
LoadedNamesNonEmpty == loadedFrom # <<>> => NamesNonEmpty(employees)

\* the counter a key value stands for (lines 37-41)
PersistedCounter(storage) == InitialLastId(storage.employees_last_id)

\* after a load the counter is the larger of the persisted counter and the
\* highest id that survived
LoadedCounter ==
    loadedFrom' # <<>>
       => lastId' = MaxOf({PersistedCounter(localStorage)} \cup IdsOf(employees'))

\* the counter under the key is not lower after the step than before it
PersistedCounterKept == PersistedCounter(localStorage') >= PersistedCounter(localStorage)

\* C19: a load leaves the counter at the larger of the persisted counter and
\* the highest surviving id, and no step of a session of loads and roster
\* operations lowers the persisted counter.
C19_PersistedCounterNeverLower ==
    [][LoadedCounter /\ PersistedCounterKept]_vars

\* the first half alone
C19_LoadedCounterIsMax == [][LoadedCounter]_vars

\* the second half when nothing is started while an import is in flight
PersistedCounterKeptWhenImportsAlone ==
    [][importsAlone' => PersistedCounterKept]_vars

(***************************************************************************)
(* Properties of the import.                                               *)
(***************************************************************************)
\* the step is the onload of a readable sheet with both columns and a data row
Reconciles ==
    /\ fileReader # <<>>
    /\ fileReader' = Tail(fileReader)
    /\ Head(fileReader).file.readable
    /\ Head(fileReader).file.headers = <<hEmployeeID, hEmployeeName>>
    /\ Len(Head(fileReader).file.rows) >= 1

RowUsable(row) == trim(row.empnid) # EmptyStr /\ trim(row.name) # EmptyStr

SameCode(a, b) == toLowerCase(trim(a.empnid)) = toLowerCase(trim(b.empnid))

\* row i is accepted: it has a code and a name, its code is not in the roster
\* and no earlier row with a code and a name carries it (such a row would
\* have been accepted, or rejected for an accepted row before it)
RowAccepted(existingEmpnids, rows, i) ==
    /\ RowUsable(rows[i])
    /\ toLowerCase(trim(rows[i].empnid)) \notin existingEmpnids
    /\ \A j \in 1..(i - 1) : RowUsable(rows[j]) => ~SameCode(rows[j], rows[i])

AcceptedRows(existingEmpnids, rows) ==
    {i \in DOMAIN rows : RowAccepted(existingEmpnids, rows, i)}

RejectedRows(existingEmpnids, rows) ==
    {i \in DOMAIN rows : RowUsable(rows[i]) /\ ~RowAccepted(existingEmpnids, rows, i)}

\* the reason a rejected row is reported with
RejectReason(existingEmpnids, rows, i) ==
    IF \E j \in 1..(i - 1) : RowAccepted(existingEmpnids, rows, j) /\ SameCode(rows[j], rows[i])
    THEN DuplicateInFile
    ELSE DuplicateInSystem

\* the k-th row of S, a set of row numbers
Kth(S, k) == CHOOSE i \in S : Cardinality({j \in S : j <= i}) = k

ExpectedAccepted(existingEmpnids, last, rows) ==
    LET S == AcceptedRows(existingEmpnids, rows)
    IN  [k \in 1..Cardinality(S) |->
            [id |-> last + k,
             empnid |-> trim(rows[Kth(S, k)].empnid),
             name |-> trim(rows[Kth(S, k)].name)]]

ExpectedRejected(existingEmpnids, rows) ==
    LET S == RejectedRows(existingEmpnids, rows)
    IN  [k \in 1..Cardinality(S) |->
            [row |-> Kth(S, k) + 1,
             empnid |-> trim(rows[Kth(S, k)].empnid),
             name |-> trim(rows[Kth(S, k)].name),
             reason |-> RejectReason(existingEmpnids, rows, Kth(S, k))]]

\* C20: the reconcile step reports no row that lacks a code or a name, rejects
\* a row as a duplicate in the file when its code is, letter case aside, that
\* of a row accepted before it, otherwise as a duplicate in the system when
\* the roster has the code, and accepts every other row, the k-th of them with
\* id counter + k, whatever its name.
C20_ReconcileClassifiesRows ==
    [][Reconciles =>
         LET closure == Head(fileReader)
             accepted == ExpectedAccepted(closure.existingEmpnids, closure.lastId,
                                          closure.file.rows)
             rejected == ExpectedRejected(closure.existingEmpnids, closure.file.rows)
         IN  /\ rejected # <<>> =>
                   importDuplicates' = rejected /\ pendingImportEmployees' = accepted
             /\ (rejected = <<>> /\ accepted # <<>>) =>
                   employees' = employees \o accepted]_vars

\* a batch was reconciled that had a row rejected for the roster, a row
\* rejected for the file, and an accepted row
C20_Witness ==
    /\ showImportPopup
    /\ Len(pendingImportEmployees) = 1
    /\ pendingImportEmployees[1].id = MaxOf(IdsOf(employees)) + 1
    /\ \E k \in DOMAIN importDuplicates : importDuplicates[k].reason = DuplicateInFile
    /\ \E k \in DOMAIN importDuplicates : importDuplicates[k].reason = DuplicateInSystem

\* two rows with the same name and different codes were imported
SameNameAccepted ==
    /\ Len(employees) = 2
    /\ employees[1].name = employees[2].name
    /\ employees[1].empnid # employees[2].empnid
    /\ operations = 2

\* the step is a confirm of the import popup
Confirms == showImportPopup /\ ~showImportPopup'

\* C21: the reconcile step of an import, with or without rejected rows, adds
\* no member to the roster; only the confirm does.
C21_ReconcileAddsNoMember ==
    [][Reconciles => employees' = employees]_vars

\* the reconcile step of a batch with a rejected row adds no member, and the
\* confirm that follows appends the pending rows
ReconcileWithRejectsAddsNoMember ==
    [][/\ (/\ Reconciles
           /\ ExpectedRejected(Head(fileReader).existingEmpnids,
                               Head(fileReader).file.rows) # <<>>)
             => employees' = employees
       /\ Confirms => employees' = employees \o pendingImportEmployees]_vars

\* C22: the reconcile step of an import leaves the counter as it is; the
\* confirm advances it by the number of rows it commits.
C22_CounterAdvancesAtConfirm ==
    [][/\ Reconciles => lastId' = lastId
       /\ Confirms => lastId' = lastId + Len(pendingImportEmployees)]_vars

\* what the code does instead: the reconcile step sets the counter to the
\* captured counter plus the number of accepted rows, the confirm leaves it
CounterAdvancesAtReconcile ==
    [][/\ Reconciles =>
            LET closure == Head(fileReader)
                accepted == ExpectedAccepted(closure.existingEmpnids, closure.lastId,
                                             closure.file.rows)
                rejected == ExpectedRejected(closure.existingEmpnids, closure.file.rows)
            IN  (rejected # <<>> \/ accepted # <<>>)
                   => lastId' = closure.lastId + Len(accepted)
       /\ Confirms => lastId' = lastId]_vars


\* the header row of the sheet has a cell for the id and a cell for the name
NamesBothColumns(cells) ==
    /\ \E k \in DOMAIN cells : cells[k] = hEmployeeID
    /\ \E k \in DOMAIN cells : cells[k] = hEmployeeName

\* the step is the onload of a readable sheet whose header row lacks the id
\* column or the name column
ReadsHeaderWithoutColumns ==
    /\ fileReader # <<>>
    /\ fileReader' = Tail(fileReader)
    /\ Head(fileReader).file.readable
    /\ ~NamesBothColumns(Head(fileReader).file.headers)

C24_BulkDrawNeedsTwo ==
    [][(handleSecretSantaDraw /\ Len(employees) < 2) =>
         /\ error' = ErrNeedTwo
         /\ secretSantaAssignments' = secretSantaAssignments
         /\ bulkTimer' = <<>>
         /\ ~isAnimating'
         /\ slotTimers' = slotTimers
         /\ showSlotSelection' = showSlotSelection]_vars

\* a bulk draw was requested on a roster of one and rejected
C24_Witness ==
    /\ Len(employees) = 1
    /\ lastOp = <<"handleSecretSantaDraw", Null, "rejected">>
    /\ error = ErrNeedTwo


\* the step is the callback of a pending bulk draw
BulkDrawCompletes == bulkTimer # <<>> /\ bulkTimer' = <<>>

\* C25: the callback of a bulk draw either replaces the assignments by a map
\* with an entry for every member it was requested for and no other entry,
\* or fails with the unable error and leaves the assignments as they were.
C25_BulkDrawReplacesWholeMap ==
    [][BulkDrawCompletes =>
         \/ /\ DOMAIN secretSantaAssignments' = IdsOf(bulkTimer[1])
            /\ Values(secretSantaAssignments') \subseteq IdsOf(bulkTimer[1])
            /\ error' = error
         \/ /\ secretSantaAssignments' = secretSantaAssignments
            /\ error' = ErrUnable]_vars

\* a bulk draw succeeded on the two members left after a delete
C25_Witness ==
    /\ lastOp[1] = "BulkTimeout"
    /\ lastOp[3] = "assigned"
    /\ Len(employees) = 2
    /\ Cardinality(allocatedIds) = 3
    /\ DOMAIN secretSantaAssignments = IdsOf(employees)

\* a bulk draw failed and left assignments in place
BulkDrawFailedOverAssignments ==
    /\ lastOp[1] = "BulkTimeout"
    /\ lastOp[3] = "failed"
    /\ DOMAIN secretSantaAssignments # {}


\* the positions of the roster members other than the drawer that are nobody's
\* target
PoolPositions(emps, assignments, drawer) ==
    {i \in DOMAIN emps :
        emps[i].id # drawer /\ \A k \in DOMAIN assignments : assignments[k] # emps[i].id}

\* C26: a request for an individual draw with a non-empty pool opens the draw
\* on exactly the members other than the drawer that are nobody's target;
\* with an empty pool it sets the no-candidates error and changes nothing
\* else; the pool and the drawer of an open draw stay as requested, the pick
\* is taken from that pool, and the commit writes that pick.
C26_PoolIsUnassignedOthers ==
    [][/\ \A id \in 1..MaxRoster :
            handleIndividualDraw(id) =>
               LET pool == PoolPositions(employees, secretSantaAssignments, id)
               IN  IF pool = {}
                   THEN /\ error' = ErrNoAvailable
                        /\ UNCHANGED <<employees, lastId, secretSantaAssignments,
                                       showSlotSelection, currentDrawingEmployee,
                                       availableSlots, selectedSlot, slotTimers,
                                       bulkTimer, isAnimating>>
                   ELSE /\ showSlotSelection'
                        /\ currentDrawingEmployee' = id
                        /\ Len(availableSlots') = Cardinality(pool)
                        /\ Range(availableSlots') = {employees[i].id : i \in pool}
                        /\ secretSantaAssignments' = secretSantaAssignments
       /\ (SlotOverlayShown /\ SlotOverlayShown'
           /\ \A id \in 1..MaxRoster : ~handleIndividualDraw(id))
             => UNCHANGED <<availableSlots, currentDrawingEmployee>>
       /\ Len(slotTimers') > Len(slotTimers)
             => /\ slotTimers'[Len(slotTimers')].drawer = currentDrawingEmployee
                /\ slotTimers'[Len(slotTimers')].assigned \in Range(availableSlots)
       /\ SlotTimeout
             => secretSantaAssignments'[Head(slotTimers).drawer] = Head(slotTimers).assigned]_vars

\* a second individual draw was committed: its target is not the first one's
C26_Witness ==
    /\ lastOp[1] = "SlotTimeout"
    /\ Cardinality(DOMAIN secretSantaAssignments) = 2
    /\ Injective(secretSantaAssignments)
    /\ drawsInSequence

\* a request was rejected for an empty pool
IndividualDrawRejected ==
    /\ lastOp[1] = "handleIndividualDraw"
    /\ lastOp[3] = "rejected"
    /\ error = ErrNoAvailable


\* a slot of the open overlay can be selected
SlotSelectable ==
    SlotOverlayShown /\ selectedSlot = Null /\ Len(slotTimers) < MaxSlotTimers

\* C27: whichever slot of the overlay is clicked, every member of the pool
\* can become the target and nobody else can: the targets that can follow a
\* click are the whole pool for every slot index.
C27_SlotIndexDoesNotChooseTarget ==
    [][/\ SlotSelectable =>
            \A slotIndex \in 0..(Len(availableSlots) - 1) :
               \A target \in Range(availableSlots) :
                  ENABLED (/\ handleSlotSelect(slotIndex)
                           /\ Len(slotTimers') = Len(slotTimers) + 1
                           /\ slotTimers'[Len(slotTimers')].assigned = target)
       /\ \A slotIndex \in 0..(MaxRoster - 1) :
            (handleSlotSelect(slotIndex) /\ Len(slotTimers') > Len(slotTimers))
               => slotTimers'[Len(slotTimers')].assigned \in Range(availableSlots)]_vars

\* the first slot of a pool of two was clicked and the pick is the member in
\* the second slot
C27_Witness ==
    /\ SlotOverlayShown
    /\ Len(availableSlots) = 2
    /\ selectedSlot = 0
    /\ slotTimers # <<>>
    /\ slotTimers[Len(slotTimers)].assigned = availableSlots[2]
    /\ slotTimers[Len(slotTimers)].drawer = currentDrawingEmployee


\* the loop of the bulk computation on emps after n passes, from the first
\* shuffle
LoopAfter(emps, n) ==
    Passes(emps, [shuffleds |-> FisherYates(emps), found |-> {}, attempts |-> 0], n)

\* no order of emps pairs every member with an id other than its own
NoValidPairing(emps) ==
    \A shuffled \in FisherYates(emps) : ~PairingAttempt(emps, shuffled).valid

\* C28: the loop of the bulk computation has stopped after 100 passes with at
\* most 100 pairing attempts made, and a computation in which no attempt was
\* valid ends with the unable-to-assign error and the assignments unchanged.
C28_BulkDrawBoundedAndFailsCleanly ==
    [][BulkTimeout =>
          LET emps == bulkTimer[1]
              last == LoopAfter(emps, maxAttempts)
          IN  /\ last.attempts <= maxAttempts
              /\ AttemptStep(emps, last) = last
              /\ LoopAfter(emps, maxAttempts + 1) = last
              /\ \/ /\ error' = ErrUnable
                    /\ secretSantaAssignments' = secretSantaAssignments
                    /\ last.shuffleds # {}
                 \/ /\ DOMAIN secretSantaAssignments' # {}
                    /\ secretSantaAssignments' \in last.found
                    /\ error' = error
              /\ NoValidPairing(emps) =>
                    /\ error' = ErrUnable
                    /\ secretSantaAssignments' = secretSantaAssignments
              /\ ~isAnimating' /\ bulkTimer' = <<>>
              /\ employees' = employees /\ lastId' = lastId]_vars

\* a bulk computation over two or more employees for whom no pairing exists
\* has ended with the unable-to-assign error
C28_Witness ==
    /\ lastOp[1] = "BulkTimeout"
    /\ lastOp[3] = "failed"
    /\ Len(lastOp[2]) >= 2
    /\ NoValidPairing(lastOp[2])
    /\ error = ErrUnable
    /\ ~isAnimating


(***************************************************************************)
(* Properties of a startup from an unreadable snapshot.                    *)
(***************************************************************************)
\* the roster snapshot under the key cannot be read as a list of records
Unreadable(storage) == storage.employees_data.kind \in {"corrupt", "notArray"}

\* the step is a load of an unreadable roster snapshot
LoadsUnreadable == loadedFrom' # <<>> /\ Unreadable(localStorage)

\* the form holds a code and a name, and no member has the code
Creatable(typed) ==
    /\ trim(typed.empnid) # EmptyStr
    /\ trim(typed.name) # EmptyStr
    /\ \A i \in DOMAIN employees :
          toLowerCase(employees[i].empnid) # toLowerCase(trim(typed.empnid))

\* C29: a load of an unreadable roster snapshot completes with an empty
\* roster and with the counter that was persisted, which stays persisted, and
\* every create that follows with a code and a name no member has adds the
\* member under the next id.
C29_UnreadableSnapshotStartsEmpty ==
    [][/\ ~isLoaded => ENABLED Mount
       /\ LoadsUnreadable =>
            /\ isLoaded'
            /\ employees' = <<>>
            /\ error' = ErrNone
            /\ \A n \in 0..MaxLastId :
                  localStorage.employees_last_id = String(n)
                     => lastId' = n /\ localStorage'.employees_last_id = String(n)
            /\ localStorage'.employees_data = [kind |-> "array", records |-> <<>>]
       /\ \A typed \in [empnid : TypedEmpnids, name : TypedNames] :
            (lastOp[3] = "unreadable" /\ handleCreate(typed) /\ Creatable(typed))
               => /\ employees' = Append(employees, [id |-> lastId + 1,
                                                     empnid |-> trim(typed.empnid),
                                                     name |-> trim(typed.name)])
                  /\ lastId' = lastId + 1
                  /\ error' = ErrNone
                  /\ localStorage'.employees_data.records = employees']_vars

\* after a load of an unreadable snapshot beside a persisted counter of 1 a
\* member was created under id 2
C29_Witness ==
    /\ lastOp = <<"mount", Null, "unreadable">>
    /\ Len(employees) = 1
    /\ employees[1].id = 2
    /\ lastId = 2
    /\ localStorage.employees_last_id = String(2)
    /\ error = ErrNone

\* an unreadable snapshot was loaded beside a persisted counter
UnreadableLoadedWithCounter ==
    /\ loadedFrom # <<>>
    /\ loadedFrom[1].employees_data.kind = "notArray"
    /\ loadedFrom[1].employees_last_id = String(MaxLastId)
    /\ lastId = MaxLastId
    /\ employees = <<>>


(***************************************************************************)
(* Properties of the clearing of the assignments.                          *)
(***************************************************************************)
\* C30: a confirmed clear leaves no assignment, in the state and under the
\* key, and leaves the roster and the counter as they were; a declined clear
\* changes nothing.
C30_ClearEmptiesOnlyWhenConfirmed ==
    [][/\ handleClearSecretSanta(TRUE) =>
            /\ DOMAIN secretSantaAssignments' = {}
            /\ DOMAIN localStorage'.secret_santa_assignments = {}
            /\ employees' = employees
            /\ lastId' = lastId
            /\ localStorage'.employees_data = localStorage.employees_data
            /\ localStorage'.employees_last_id = localStorage.employees_last_id
       /\ handleClearSecretSanta(FALSE) =>
            UNCHANGED <<employees, lastId, isLoaded, localStorage, formData, editingId,
                        error, secretSantaAssignments, isAnimating, showSlotSelection,
                        currentDrawingEmployee, availableSlots, selectedSlot, bulkTimer,
                        slotTimers, fileReader, showImportPopup, importDuplicates,
                        pendingImportEmployees, importValidCount>>]_vars

\* the assignments of a roster of two or more were cleared
C30_Witness ==
    /\ lastOp = <<"handleClearSecretSanta", Null, "cleared">>
    /\ Len(employees) >= 2
    /\ DOMAIN secretSantaAssignments = {}
    /\ DOMAIN localStorage.secret_santa_assignments = {}

\* a clear was declined over assignments that are still there
ClearDeclined ==
    /\ lastOp = <<"handleClearSecretSanta", Null, "declined">>
    /\ DOMAIN secretSantaAssignments # {}


(***************************************************************************)
(* Properties of the first pairing attempt.                                *)
(***************************************************************************)
\* every order of the members of emps
Orders(emps) ==
    {[k \in 1..Len(emps) |-> emps[p[k]]] : p \in Permutations(1..Len(emps))}

\* from position i of shuffled on, going round once, there is a slot that is
\* not the i-th member of emps
ScanFindsOther(emps, shuffled, i) ==
    \E k \in 0..(Len(emps) - 1) :
        At0(shuffled, (i + k) % Len(emps)).id # At0(emps, i).id

\* C31: on a roster of 2 or more members with distinct ids, for every order
\* the shuffle can leave, the scan finds a slot other than the member for
\* every member and the first pairing attempt is valid; no run reaches the
\* reshuffle, and the callback does not end with the unable-to-assign error.
C31_FirstAttemptValidOnDistinctIds ==
    [][(BulkTimeout /\ Len(bulkTimer[1]) >= 2 /\ DistinctIds(bulkTimer[1])) =>
          LET emps == bulkTimer[1]
          IN  /\ FisherYates(emps) = Orders(emps)
              /\ \A shuffled \in Orders(emps) :
                    /\ \A i \in 0..(Len(emps) - 1) : ScanFindsOther(emps, shuffled, i)
                    /\ PairingAttempt(emps, shuffled).valid
                    /\ DOMAIN PairingAttempt(emps, shuffled).temp = IdsOf(emps)
              /\ LoopAfter(emps, 1).shuffleds = {}
              /\ LoopAfter(emps, 1).attempts = 1
              /\ error' # ErrUnable
              /\ DOMAIN secretSantaAssignments' = IdsOf(emps)]_vars

\* a bulk draw on three members with distinct ids was committed from an order
\* in which a member stood at its own position: two members share a target
C31_Witness ==
    /\ lastOp[1] = "BulkTimeout"
    /\ lastOp[3] = "assigned"
    /\ Len(lastOp[2]) = 3
    /\ DistinctIds(lastOp[2])
    /\ DOMAIN secretSantaAssignments = IdsOf(lastOp[2])
    /\ ~Injective(secretSantaAssignments)
    /\ error = ErrNone


(***************************************************************************)
(* Properties of a sequence of individual draws.                           *)
(***************************************************************************)
\* every member but id has drawn, the targets are the members other than id,
\* and no draw is open or pending: id is the only member who has not drawn
\* and the only member who is nobody's target
DeadEnd(id) ==
    /\ Len(employees) >= 3
    /\ DistinctIds(employees)
    /\ id \in IdsOf(employees)
    /\ DOMAIN secretSantaAssignments = IdsOf(employees) \ {id}
    /\ Values(secretSantaAssignments) = IdsOf(employees) \ {id}
    /\ ~isAnimating
    /\ ~showSlotSelection
    /\ slotTimers = <<>>
    /\ bulkTimer = <<>>

\* C32: when every member of a roster of 3 or more but one has drawn and the
\* one left is the only member who is nobody's target, that member can
\* request a draw, and every such request fails with the no-candidates error
\* and leaves the assignments and the overlay as they are.  Such a state is
\* reached by individual draws alone.
C32_LastDrawerCanDeadEnd ==
    [][\A id \in 1..MaxRoster :
          DeadEnd(id) =>
             /\ ENABLED handleIndividualDraw(id)
             /\ handleIndividualDraw(id) =>
                   /\ error' = ErrNoAvailable
                   /\ secretSantaAssignments' = secretSantaAssignments
                   /\ ~showSlotSelection'
                   /\ slotTimers' = <<>>
                   /\ DeadEnd(id)']_vars

\* after the individual draws of the two other members of a roster of three,
\* the draw of the third was rejected for its empty pool
C32_Witness ==
    /\ lastOp[1] = "handleIndividualDraw"
    /\ lastOp[3] = "rejected"
    /\ DeadEnd(lastOp[2])
    /\ Len(employees) = 3
    /\ Cardinality(allocatedIds) = 3
    /\ drawsInSequence
    /\ error = ErrNoAvailable


(***************************************************************************)
(* Properties of an import that interleaves with roster operations.        *)
(***************************************************************************)
\* C33: the confirm of an import popup on a roster with unique ids and codes
\* that are unique letter case aside leaves a roster with unique ids and
\* unique codes, whatever was created or imported since the batch was checked.
C33_ConfirmKeepsRosterValid ==
    [][(Confirms /\ DistinctIds(employees) /\ CodesUnique(employees))
          => (DistinctIds(employees') /\ CodesUnique(employees'))]_vars

\* the confirm keeps the roster valid when nothing was created, generated or
\* imported between the choice of the file and the confirm
ConfirmKeepsRosterValidWhenImportsAlone ==
    [][(Confirms /\ importsAlone' /\ DistinctIds(employees) /\ CodesUnique(employees))
          => (DistinctIds(employees') /\ CodesUnique(employees'))]_vars

\* a confirm has left two members with the same code and different ids
ConfirmedOntoCreatedCode ==
    /\ Len(employees) = 2
    /\ ~CodesUnique(employees)
    /\ employees[1].id = 2
    /\ employees[2].id = 1
    /\ ~showImportPopup
    /\ ~importsAlone


(***************************************************************************)
(* Properties of the roster while a bulk draw is pending.                  *)
(***************************************************************************)
\* C34: no step taken while a bulk draw is pending changes the roster, and
\* the map a bulk draw commits has an entry for exactly the members of the
\* roster at the commit.
C34_RosterFixedWhileBulkPending ==
    [][/\ bulkTimer # <<>> => employees' = employees
       /\ (BulkDrawCompletes /\ secretSantaAssignments' # secretSantaAssignments)
             => DOMAIN secretSantaAssignments' = IdsOf(employees')]_vars

\* what the disabled attributes do give: while a bulk draw is pending no
\* member is removed, no edit is started, and the members the draw was
\* requested for are the first members of the roster
NoRemovalWhileBulkPending ==
    [][bulkTimer # <<>> =>
          /\ Len(employees') >= Len(employees)
          /\ SubSeq(employees', 1, Len(bulkTimer[1])) = bulkTimer[1]
          /\ editingId' \in {editingId, Null}]_vars

\* a bulk draw has committed a map without an entry for a member that was
\* created while it was pending
CreatedMemberLeftWithoutEntry ==
    /\ lastOp[1] = "BulkTimeout"
    /\ lastOp[3] = "assigned"
    /\ DistinctIds(employees)
    /\ Len(employees) = Len(lastOp[2]) + 1
    /\ DOMAIN secretSantaAssignments = IdsOf(lastOp[2])
    /\ employees[Len(employees)].id \notin DOMAIN secretSantaAssignments

====
